---- MODULE Spec2Model ----
(***************************************************************************)
(* Model of src/pow.cpp: GetNextWorkRequired (difficulty retargeting with  *)
(* the two Feathercoin hard forks) and CheckProofOfWork.                   *)
(*                                                                         *)
(* A 256-bit arith_uint256 is a sequence of WIDTH bytes, least significant *)
(* byte first, so that every operation keeps the real width and wraps      *)
(* modulo 2^256 exactly where the C++ type does.                           *)
(***************************************************************************)
EXTENDS Integers, Sequences, FiniteSets, TLC

VARIABLES params, chain, last, pow

vars == <<params, chain, last, pow>>

(***************************************************************************)
(* Bounds of the exploration.                                              *)
(***************************************************************************)
MaxHeight == 6

(***************************************************************************)
(* arith_uint256 (arith_uint256.h / arith_uint256.cpp)                     *)
(***************************************************************************)
WIDTH == 32

\* C++ integer division truncates toward zero
CDiv(a, b) == IF a >= 0 THEN a \div b ELSE -((-a) \div b)

Pow256(n) == IF n = 0 THEN 1 ELSE IF n = 1 THEN 256 ELSE IF n = 2 THEN 65536 ELSE 16777216

\* a 256-bit value from its bytes, f[i] the i-th byte from the low end
MkBig(f) ==
    <<f[1], f[2], f[3], f[4], f[5], f[6], f[7], f[8],
      f[9], f[10], f[11], f[12], f[13], f[14], f[15], f[16],
      f[17], f[18], f[19], f[20], f[21], f[22], f[23], f[24],
      f[25], f[26], f[27], f[28], f[29], f[30], f[31], f[32]>>

BigZero == MkBig([i \in 1..WIDTH |-> 0])

\* the value with the (at most 3-byte) word w placed at byte offset off
BigFromWord(w, off) ==
    MkBig([i \in 1..WIDTH |->
        IF i - 1 < off \/ i - 1 > off + 2 THEN 0
        ELSE (w \div Pow256(i - 1 - off)) % 256])

\* the low 24 bits of (b >> 8*off)
BigWordAt(b, off) ==
    b[off + 1]
    + (IF off + 2 <= WIDTH THEN 256 * b[off + 2] ELSE 0)
    + (IF off + 3 <= WIDTH THEN 65536 * b[off + 3] ELSE 0)

ByteBits(x) ==
    IF x >= 128 THEN 8 ELSE IF x >= 64 THEN 7 ELSE IF x >= 32 THEN 6
    ELSE IF x >= 16 THEN 5 ELSE IF x >= 8 THEN 4 ELSE IF x >= 4 THEN 3
    ELSE IF x >= 2 THEN 2 ELSE IF x >= 1 THEN 1 ELSE 0

\* base_uint::bits(): position of the highest set bit plus one, 0 for zero
BigBits(b) ==
    LET nz == {i \in 1..WIDTH : b[i] # 0}
    IN IF nz = {} THEN 0
       ELSE LET top == CHOOSE i \in nz : \A j \in nz : j <= i
            IN 8 * (top - 1) + ByteBits(b[top])

\* base_uint::CompareTo
BigGT(a, b) ==
    \E i \in 1..WIDTH : a[i] > b[i] /\ \A j \in (i + 1)..WIDTH : a[j] = b[j]

BigLE(a, b) == ~BigGT(a, b)

\* operator>>=(1)
BigShr1(b) ==
    MkBig([i \in 1..WIDTH |->
        (b[i] \div 2) + (IF i < WIDTH THEN (b[i + 1] % 2) * 128 ELSE 0)])

\* operator<<=(1): the top bit is dropped
BigShl1(b) ==
    MkBig([i \in 1..WIDTH |->
        ((b[i] * 2) % 256) + (IF i > 1 THEN b[i - 1] \div 128 ELSE 0)])

\* operator*=(uint32_t b32), byte by byte from the low end: the WIDTH bytes
\* of the product followed by the carry out of the top byte
RECURSIVE MulFrom(_, _, _, _, _)
MulFrom(b, n, i, carry, acc) ==
    IF i > WIDTH THEN Append(acc, carry)
    ELSE LET t    == carry + b[i] * n
             acc2 == Append(acc, t % 256)
         IN IF Len(acc2) = i THEN MulFrom(b, n, i + 1, t \div 256, acc2)
            ELSE acc2

\* the product modulo 2^256
BigMul(b, n) == SubSeq(MulFrom(b, n, 1, 0, <<>>), 1, WIDTH)

\* TRUE iff the product b * n does not fit in 256 bits
BigMulWraps(b, n) == MulFrom(b, n, 1, 0, <<>>)[WIDTH + 1] # 0

\* operator/=, long division from the top byte by a small divisor
RECURSIVE DivFrom(_, _, _, _, _)
DivFrom(b, n, i, rem, acc) ==
    IF i = 0 THEN acc
    ELSE LET t    == rem * 256 + b[i]
             acc2 == <<t \div n>> \o acc
         IN IF Len(acc2) + i = WIDTH + 1 THEN DivFrom(b, n, i - 1, t % n, acc2)
            ELSE acc2

BigDiv(b, n) == DivFrom(b, n, WIDTH, 0, <<>>)

\* arith_uint256::SetCompact: the value and the two flags
SetCompact(nCompact) ==
    LET nSize == nCompact \div 16777216
        nWord == IF nSize <= 3
                 THEN (nCompact % 8388608) \div Pow256(3 - nSize)
                 ELSE nCompact % 8388608
        value == IF nSize <= 3 THEN BigFromWord(nWord, 0)
                 ELSE BigFromWord(nWord, nSize - 3)
    IN [value     |-> value,
        fNegative |-> nWord # 0 /\ (nCompact \div 8388608) % 2 = 1,
        fOverflow |-> nWord # 0 /\ (\/ nSize > 34
                                    \/ (nWord > 255 /\ nSize > 33)
                                    \/ (nWord > 65535 /\ nSize > 32))]

\* arith_uint256::GetCompact(fNegative = false)
GetCompact(b) ==
    LET nSize  == (BigBits(b) + 7) \div 8
        nWord  == IF nSize <= 3
                  THEN BigWordAt(b, 0) * Pow256(3 - nSize)
                  ELSE BigWordAt(b, nSize - 3)
        fSign  == (nWord \div 8388608) % 2 = 1
        nWord2 == IF fSign THEN nWord \div 256 ELSE nWord
        nSize2 == IF fSign THEN nSize + 1 ELSE nSize
    IN nWord2 + nSize2 * 16777216

(***************************************************************************)
(* Consensus::Params and the block index (chain.h)                         *)
(***************************************************************************)
\* 00000fffff...ff, the main and test network limit (236 bits)
PowLimitMain ==
    MkBig([i \in 1..WIDTH |->
        IF i <= 29 THEN 255 ELSE IF i = 30 THEN 15 ELSE 0])

\* 7fffff...ff, the regression test network limit (255 bits)
PowLimitRegtest ==
    MkBig([i \in 1..WIDTH |->
        IF i <= 31 THEN 255 ELSE 127])

\* <<nForkOne, nForkTwo>>
ForkHeights == {<<5, 9>>, <<3, 9>>, <<4, 4>>}

\* the networks: retargeting ones with either limit and an interval of 2
\* blocks before the forks, the regression test network, which never
\* retargets, and a test network with an interval of 4 blocks throughout
ParamsSet ==
    { [powLimit                     |-> pl,
       nPowTargetTimespan           |-> 37800,
       nPowTargetSpacing            |-> 18900,
       fPowAllowMinDifficultyBlocks |-> am,
       fPowNoRetargeting            |-> FALSE,
       nForkOne                     |-> fk[1],
       nForkTwo                     |-> fk[2]] :
      pl \in {PowLimitMain, PowLimitRegtest}, am \in BOOLEAN,
      fk \in ForkHeights }
    \cup
    { [powLimit                     |-> PowLimitRegtest,
       nPowTargetTimespan           |-> 37800,
       nPowTargetSpacing            |-> 18900,
       fPowAllowMinDifficultyBlocks |-> TRUE,
       fPowNoRetargeting            |-> TRUE,
       nForkOne                     |-> fk[1],
       nForkTwo                     |-> fk[2]] : fk \in ForkHeights }
    \cup
    { [powLimit                     |-> PowLimitMain,
       nPowTargetTimespan           |-> 75600,
       nPowTargetSpacing            |-> 18900,
       fPowAllowMinDifficultyBlocks |-> TRUE,
       fPowNoRetargeting            |-> FALSE,
       nForkOne                     |-> 5,
       nForkTwo                     |-> 9] }

\* the genesis block of a network: its bits are the limit's
Genesis(p) == [nTime |-> 1000000, nBits |-> GetCompact(p.powLimit)]

\* the candidate header's time, relative to the tip (block times need not
\* be monotonic)
TimeDeltas(p) ==
    {-p.nPowTargetSpacing, 2 * p.nPowTargetSpacing, 2 * p.nPowTargetSpacing + 1}

\* what reading nTime through a null CBlockIndex* may do: fault, or yield
\* whatever the memory holds
NullReads ==
    {[fault |-> TRUE, nTime |-> 0], [fault |-> FALSE, nTime |-> 0],
     [fault |-> FALSE, nTime |-> 2000000000]}

\* CBlockIndex::GetAncestor on a chain held as a sequence: the block at
\* height h is ch[h + 1]
GetAncestor(ch, h) == ch[h + 1]

(***************************************************************************)
(* GetNextWorkRequired, step by step                                       *)
(***************************************************************************)
TargetTimespan(nHeight, p) ==
    IF nHeight >= p.nForkTwo THEN (7 * 24 * 60 * 60) \div 32
    ELSE IF nHeight >= p.nForkOne THEN (7 * 24 * 60 * 60) \div 8
    ELSE p.nPowTargetTimespan

Interval(nTargetTimespan, p) == nTargetTimespan \div p.nPowTargetSpacing

\* the second fork alone forces a retarget
HardFork_OnlyForkTwo(nHeight, p) == nHeight = p.nForkTwo

HardFork(nHeight, p) == nHeight = p.nForkOne \/ nHeight = p.nForkTwo

\* the tip's height taken for the height of the next block
OnlyChangeOncePerInterval_TipHeight(nHeight, nInterval, fHardFork) ==
    (nHeight - 1) % nInterval # 0 /\ ~fHardFork

\* line 33: the height keeps the previous difficulty
OnlyChangeOncePerInterval(nHeight, nInterval, fHardFork) ==
    nHeight % nInterval # 0 /\ ~fHardFork

\* a block exactly one second late is not yet late
MinDifficultyAllowed_OffByOne(pblockTime, lastTime, p) ==
    pblockTime > lastTime + p.nPowTargetSpacing * 2 + 1

\* line 40: the testnet rule for a late block
MinDifficultyAllowed(pblockTime, lastTime, p) ==
    pblockTime > lastTime + p.nPowTargetSpacing * 2

\* lines 45-48: index of the last block not mined under the testnet rule
LastNonSpecial(ch, nInterval, nProofOfWorkLimit) ==
    LET walk[i \in 1..Len(ch)] ==
            IF i > 1 /\ (i - 1) % nInterval # 0 /\ ch[i].nBits = nProofOfWorkLimit
            THEN walk[i - 1] ELSE i
    IN walk[Len(ch)]

\* lines 67-69: index reached by the long-window walk, 0 for a null pointer
LongWindowFirst(ch, nInterval) ==
    LET walk[i \in 0..nInterval] ==
            IF i = 0 THEN Len(ch)
            ELSE IF walk[i - 1] = 0 THEN 0 ELSE walk[i - 1] - 1
    IN walk[nInterval]

\* lines 71-78: average of the short and long windows, damped by .25
DampedTimespan(nActualTimespan, lastTime, firstTime, nTargetTimespan) ==
    LET nActualTimespanLong == CDiv(lastTime - firstTime, 4)
        nActualTimespanAvg  == CDiv(nActualTimespan + nActualTimespanLong, 2)
    IN CDiv(nActualTimespanAvg + 3 * nTargetTimespan, 4)

\* lines 82-95
ActualTimespanMax(nHeight, nTargetTimespan, p) ==
    IF nHeight >= p.nForkTwo THEN (nTargetTimespan * 494) \div 453
    ELSE IF nHeight >= p.nForkOne /\ nHeight < p.nForkTwo
    THEN (nTargetTimespan * 99) \div 70
    ELSE nTargetTimespan * 4

ActualTimespanMin(nHeight, nTargetTimespan, p) ==
    IF nHeight >= p.nForkTwo THEN (nTargetTimespan * 453) \div 494
    ELSE IF nHeight >= p.nForkOne /\ nHeight < p.nForkTwo
    THEN (nTargetTimespan * 70) \div 99
    ELSE nTargetTimespan \div 4

\* the lower limit forgotten
LimitAdjustment_NoMin(nActualTimespan, nActualTimespanMin, nActualTimespanMax) ==
    IF nActualTimespan > nActualTimespanMax THEN nActualTimespanMax
    ELSE nActualTimespan

\* lines 98-101
LimitAdjustment(nActualTimespan, nActualTimespanMin, nActualTimespanMax) ==
    LET lo == IF nActualTimespan < nActualTimespanMin
              THEN nActualTimespanMin ELSE nActualTimespan
    IN IF lo > nActualTimespanMax THEN nActualTimespanMax ELSE lo

\* line 107
Shift(bnNew, bnPowLimit) == BigBits(bnNew) > BigBits(bnPowLimit) - 1

\* lines 108-113, in 256-bit arithmetic
Rescale(bnNew, fShift, nActualTimespan, nTargetTimespan) ==
    LET a == IF fShift THEN BigShr1(bnNew) ELSE bnNew
        q == BigDiv(BigMul(a, nActualTimespan), nTargetTimespan)
    IN IF fShift THEN BigShl1(q) ELSE q

\* the limit forgotten
LimitTarget_NoLimit(bnNew, bnPowLimit) == bnNew

\* lines 115-116
LimitTarget(bnNew, bnPowLimit) ==
    IF BigGT(bnNew, bnPowLimit) THEN bnPowLimit ELSE bnNew

NoCall ==
    [outcome |-> "ok", path |-> "none", nBits |-> 0, nHeight |-> 0,
     nInterval |-> 0, nTargetTimespan |-> 0, fHardFork |-> FALSE,
     pblockTime |-> 0, lastTime |-> 0, lastBits |-> 0, firstTime |-> 0,
     nActualTimespan |-> 0, nActualTimespanMin |-> 0, nActualTimespanMax |-> 0,
     fShift |-> FALSE, fMulWraps |-> FALSE, fNullRead |-> FALSE]

\* The call GetNextWorkRequired(pindexLast, pblock, params), pindexLast the
\* tip of ch; ub settles the read through a null pointer at line 71.  The
\* record holds the outcome and the values of the locals the call computed.
GetNextWorkRequired(ch, pblockTime, p, ub) ==
    LET pindexLast        == ch[Len(ch)]
        nProofOfWorkLimit == GetCompact(p.powLimit)
        nHeight           == (Len(ch) - 1) + 1
        nTargetTimespan   == TargetTimespan(nHeight, p)
        nInterval         == Interval(nTargetTimespan, p)
        fHardFork         == HardFork(nHeight, p)
        call == [NoCall EXCEPT !.nHeight = nHeight, !.nInterval = nInterval,
                     !.nTargetTimespan = nTargetTimespan,
                     !.fHardFork = fHardFork, !.pblockTime = pblockTime,
                     !.lastTime = pindexLast.nTime,
                     !.lastBits = pindexLast.nBits]
        nHeightFirst      == (Len(ch) - 1) - (nInterval - 1)
    IN
    IF OnlyChangeOncePerInterval(nHeight, nInterval, fHardFork) THEN
        IF p.fPowAllowMinDifficultyBlocks THEN
            IF MinDifficultyAllowed(pblockTime, pindexLast.nTime, p)
            THEN [call EXCEPT !.path = "stale", !.nBits = nProofOfWorkLimit]
            ELSE [call EXCEPT !.path = "walkback",
                     !.nBits = ch[LastNonSpecial(ch, nInterval, nProofOfWorkLimit)].nBits]
        ELSE [call EXCEPT !.path = "unchanged", !.nBits = pindexLast.nBits]
    ELSE IF nHeightFirst < 0 THEN
        [call EXCEPT !.outcome = "assert", !.path = "retarget"]
    ELSE IF p.fPowNoRetargeting THEN
        [call EXCEPT !.path = "noretarget", !.nBits = pindexLast.nBits,
             !.firstTime = GetAncestor(ch, nHeightFirst).nTime]
    ELSE
        LET pindexFirst == GetAncestor(ch, nHeightFirst)
            nShort      == pindexLast.nTime - pindexFirst.nTime
            fLong       == nHeight >= p.nForkTwo
            iLong       == LongWindowFirst(ch, nInterval * 4)
            fNullRead   == fLong /\ iLong = 0
            longTime    == IF iLong = 0 THEN ub.nTime ELSE ch[iLong].nTime
            nActual     == IF fLong
                           THEN DampedTimespan(nShort, pindexLast.nTime,
                                               longTime, nTargetTimespan)
                           ELSE nShort
            nMax        == ActualTimespanMax(nHeight, nTargetTimespan, p)
            nMin        == ActualTimespanMin(nHeight, nTargetTimespan, p)
            nLimited    == LimitAdjustment(nActual, nMin, nMax)
            bnOld       == SetCompact(pindexLast.nBits).value
            fShift      == Shift(bnOld, p.powLimit)
            bnNew       == LimitTarget(
                               Rescale(bnOld, fShift, nLimited, nTargetTimespan),
                               p.powLimit)
            ret == [call EXCEPT !.path = "retarget",
                       !.firstTime = pindexFirst.nTime,
                       !.fNullRead = fNullRead]
        IN IF fNullRead /\ ub.fault
           THEN [ret EXCEPT !.outcome = "fault"]
           ELSE [ret EXCEPT !.nBits = GetCompact(bnNew),
                     !.nActualTimespan = nLimited,
                     !.nActualTimespanMin = nMin,
                     !.nActualTimespanMax = nMax,
                     !.fShift = fShift,
                     !.fMulWraps = BigMulWraps(
                         IF fShift THEN BigShr1(bnOld) ELSE bnOld, nLimited)]

\* lines 65-71: TRUE iff the long-window walk from this tip runs off the
\* chain, so that line 71 reads through a null pointer
ReadsNull(ch, p) ==
    /\ Len(ch) >= p.nForkTwo
    /\ LongWindowFirst(ch, Interval(TargetTimespan(Len(ch), p), p) * 4) = 0

(***************************************************************************)
(* CheckProofOfWork                                                        *)
(***************************************************************************)
\* the sign of the compact value ignored
CheckProofOfWork_NoSign(hash, nBits, p) ==
    LET d == SetCompact(nBits)
    IN IF \/ d.value = BigZero
          \/ d.fOverflow
          \/ BigGT(d.value, p.powLimit)
       THEN FALSE
       ELSE IF BigGT(hash, d.value) THEN FALSE ELSE TRUE

CheckProofOfWork(hash, nBits, p) ==
    LET d == SetCompact(nBits)
    IN IF \/ d.fNegative
          \/ d.value = BigZero
          \/ d.fOverflow
          \/ BigGT(d.value, p.powLimit)
       THEN FALSE
       ELSE IF BigGT(hash, d.value) THEN FALSE ELSE TRUE

(***************************************************************************)
(* The state machine: a node extends its chain, each new block carrying    *)
(* the bits GetNextWorkRequired asks for; and, on its own, a node checks   *)
(* the proof of work of headers it is handed.                              *)
(***************************************************************************)
NoCheck == [called |-> FALSE, hash |-> BigZero, nBits |-> 0, result |-> FALSE]

Init ==
    /\ params \in ParamsSet
    /\ chain = <<Genesis(params)>>
    /\ last = NoCall
    /\ pow = NoCheck

\* a call that fails its assertion or faults ends the process
NextBlock ==
    /\ last.outcome = "ok"
    /\ Len(chain) <= MaxHeight
    /\ \E dt \in TimeDeltas(params) :
       \E ub \in (IF ReadsNull(chain, params) THEN NullReads
                  ELSE {[fault |-> FALSE, nTime |-> 0]}) :
          LET t == chain[Len(chain)].nTime + dt
              r == GetNextWorkRequired(chain, t, params, ub)
          IN /\ last' = r
             /\ chain' = IF r.outcome = "ok"
                         THEN Append(chain, [nTime |-> t, nBits |-> r.nBits])
                         ELSE chain
    /\ UNCHANGED <<params, pow>>

Next == NextBlock

Spec == Init /\ [][Next]_vars

\* compact values a header may claim: the limits, real genesis bits, values
\* just above the main limit, zero, negative and overflowing encodings
HeaderBits ==
    {GetCompact(PowLimitMain), GetCompact(PowLimitRegtest),
     504365040,  \* 0x1e0ffff0
     486604799,  \* 0x1d00ffff
     504365056,  \* 0x1e100000
     50331649,   \* 0x03000001
     33587200,   \* 0x02008000
     0,
     486539264,  \* 0x1d000000
     494993407,  \* 0x1d80ffff, negative
     587202561,  \* 0x23000001, overflow
     570425600,  \* 0x22000100, overflow
     553713665}  \* 0x21010001, overflow

BigOne == BigFromWord(1, 0)

HeaderHashes ==
    {BigZero, BigOne, PowLimitMain, PowLimitRegtest,
     SetCompact(504365040).value,
     BigShr1(SetCompact(504365040).value),
     BigShl1(SetCompact(504365040).value),
     SetCompact(553713665).value}

CheckHeader ==
    /\ \E hash \in HeaderHashes, nBits \in HeaderBits :
          pow' = [called |-> TRUE, hash |-> hash, nBits |-> nBits,
                  result |-> CheckProofOfWork(hash, nBits, params)]
    /\ UNCHANGED <<params, chain, last>>

NextPow == CheckHeader

SpecPow == Init /\ [][NextPow]_vars

(***************************************************************************)
(* The properties                                                          *)
(***************************************************************************)
Called == last.path # "none"

Returned == Called /\ last.outcome = "ok"

\* the effective timespan and the interval of a height, as the
\* specification states them
EffectiveTimespan(h) ==
    IF h >= params.nForkTwo THEN 604800 \div 32
    ELSE IF h >= params.nForkOne THEN 604800 \div 8
    ELSE params.nPowTargetTimespan

EffectiveInterval(h) == EffectiveTimespan(h) \div params.nPowTargetSpacing

IsForkBoundary(h) == h = params.nForkOne \/ h = params.nForkTwo

Decoded(nBits) == SetCompact(nBits).value

\* C1: whenever GetNextWorkRequired returns a value, the target decoded
\* from the returned bits is not greater than powLimit, at every return.
C1_TargetWithinPowLimit ==
    Returned => BigLE(Decoded(last.nBits), params.powLimit)

\* C1 witness: a retarget of a tip already at the limit over a window
\* longer than the target timespan, which the limit has to cut
C1_Witness ==
    /\ Returned
    /\ last.path = "retarget"
    /\ last.lastBits = GetCompact(params.powLimit)
    /\ last.nActualTimespan > last.nTargetTimespan
    /\ last.nBits = GetCompact(params.powLimit)

\* C1, second witness: the walk-back over a late block at the limit returns
\* the bits of an older block
C1_WitnessWalkBack ==
    /\ Returned
    /\ last.path = "walkback"
    /\ last.lastBits = GetCompact(params.powLimit)
    /\ last.nBits # last.lastBits

\* C2: CheckProofOfWork is true exactly when the compact value is a target
\* in (0, powLimit] (not negative, not overflowing, not zero, not above the
\* limit) and the hash is not greater than the target.
C2_ValidIffInRangeAndBelow ==
    pow.called =>
        (pow.result <=>
            /\ ~SetCompact(pow.nBits).fNegative
            /\ ~SetCompact(pow.nBits).fOverflow
            /\ Decoded(pow.nBits) # BigZero
            /\ BigLE(Decoded(pow.nBits), params.powLimit)
            /\ BigLE(pow.hash, Decoded(pow.nBits)))

\* C2 witness: a hash equal to its target is accepted
C2_Witness ==
    /\ pow.called
    /\ pow.result
    /\ pow.hash = Decoded(pow.nBits)

\* C2, second witness: a negative encoding of a small magnitude is refused
\* whatever the hash
C2_WitnessNegative ==
    /\ pow.called
    /\ ~pow.result
    /\ SetCompact(pow.nBits).fNegative
    /\ BigLE(pow.hash, Decoded(pow.nBits))
    /\ BigLE(Decoded(pow.nBits), params.powLimit)

\* C3: the timespan multiplied into the previous target lies within the
\* bounds of the height's regime.
C3_TimespanWithinRegimeBounds ==
    (Returned /\ last.path = "retarget") =>
        LET h   == last.nHeight
            ets == EffectiveTimespan(h)
            n   == last.nActualTimespan
        IN /\ (h < params.nForkOne /\ h < params.nForkTwo) =>
                  (ets \div 4 <= n /\ n <= ets * 4)
           /\ (params.nForkOne <= h /\ h < params.nForkTwo) =>
                  ((ets * 70) \div 99 <= n /\ n <= (ets * 99) \div 70)
           /\ (h >= params.nForkTwo) =>
                  ((ets * 453) \div 494 <= n /\ n <= (ets * 494) \div 453)

\* C3 witness: a negative measured timespan, raised to the lower bound
C3_Witness ==
    /\ Returned
    /\ last.path = "retarget"
    /\ last.lastTime - last.firstTime < 0
    /\ last.nActualTimespan = EffectiveTimespan(last.nHeight) \div 4

\* C3, further witnesses: the upper bound of the first fork's regime, and
\* the lower bound of the second fork's regime after averaging and damping
C3_WitnessForkOne ==
    /\ Returned
    /\ last.path = "retarget"
    /\ params.nForkOne <= last.nHeight /\ last.nHeight < params.nForkTwo
    /\ last.nActualTimespan = (EffectiveTimespan(last.nHeight) * 99) \div 70

C3_WitnessForkTwo ==
    /\ Returned
    /\ last.path = "retarget"
    /\ last.nHeight >= params.nForkTwo
    /\ ~last.fNullRead
    /\ last.nActualTimespan = (EffectiveTimespan(last.nHeight) * 453) \div 494

C4_Case ==
    /\ Called
    /\ last.nHeight % EffectiveInterval(last.nHeight) = 0
    /\ last.nHeight < params.nForkOne /\ last.nHeight < params.nForkTwo
    /\ ~params.fPowNoRetargeting
    /\ last.lastTime - last.firstTime = EffectiveTimespan(last.nHeight)

\* C4: a retarget below both forks over a window of exactly the effective
\* timespan returns bits numerically equal to the previous bits.
C4_IdentityRescale ==
    C4_Case => /\ last.outcome = "ok"
               /\ Decoded(last.nBits) = Decoded(last.lastBits)

\* C4 where the product does not wrap: the identity holds, shift guard
\* applied or not
C4_IdentityWithoutWrap ==
    (C4_Case /\ ~last.fMulWraps) =>
        /\ last.outcome = "ok"
        /\ Decoded(last.nBits) = Decoded(last.lastBits)

C4_ReachedWithShift == C4_Case /\ ~last.fMulWraps /\ last.fShift

C5_Late ==
    /\ Returned
    /\ params.fPowAllowMinDifficultyBlocks
    /\ last.pblockTime > last.lastTime + 2 * params.nPowTargetSpacing

\* C5 as stated: with allowMinDifficultyBlocks, a candidate later than
\* previous.blockTime + 2*targetSpacing gets powLimit's compact encoding.
C5_LateBlockGetsPowLimit ==
    C5_Late => last.nBits = GetCompact(params.powLimit)

\* C5 amended: the same, at a height that is neither a multiple of the
\* interval nor a fork boundary.
C5_LateBlockGetsPowLimitOffRetarget ==
    (/\ C5_Late
     /\ last.nHeight % EffectiveInterval(last.nHeight) # 0
     /\ ~IsForkBoundary(last.nHeight))
        => last.nBits = GetCompact(params.powLimit)

\* C5 witness: a block one second past the delay, on a tip whose bits are
\* not the limit
C5_Witness ==
    /\ C5_Late
    /\ last.nHeight % EffectiveInterval(last.nHeight) # 0
    /\ ~IsForkBoundary(last.nHeight)
    /\ last.pblockTime = last.lastTime + 2 * params.nPowTargetSpacing + 1
    /\ last.lastBits # GetCompact(params.powLimit)
    /\ last.nBits = GetCompact(params.powLimit)

\* C6: off the interval boundaries and the fork boundaries, with
\* allowMinDifficultyBlocks and noRetargeting both false, the call returns
\* the previous bits unchanged.
C6_UnchangedOffBoundary ==
    (/\ Called
     /\ last.nHeight % EffectiveInterval(last.nHeight) # 0
     /\ ~IsForkBoundary(last.nHeight)
     /\ ~params.fPowAllowMinDifficultyBlocks
     /\ ~params.fPowNoRetargeting)
        => (last.outcome = "ok" /\ last.nBits = last.lastBits)

\* C6 witness: such a call on a tip whose bits a retarget has changed, for
\* a late candidate
C6_Witness ==
    /\ Called
    /\ last.nHeight % EffectiveInterval(last.nHeight) # 0
    /\ ~IsForkBoundary(last.nHeight)
    /\ ~params.fPowAllowMinDifficultyBlocks
    /\ ~params.fPowNoRetargeting
    /\ last.lastBits # GetCompact(params.powLimit)
    /\ last.pblockTime > last.lastTime + 2 * params.nPowTargetSpacing
    /\ last.nBits = last.lastBits

C7_Case ==
    /\ Called
    /\ IsForkBoundary(last.nHeight)
    /\ last.nHeight % EffectiveInterval(last.nHeight) # 0

C8_LongWindowNeverReadsNull ==
    (/\ Called
     /\ last.path = "retarget"
     /\ last.outcome # "assert"
     /\ last.nHeight >= params.nForkTwo)
        => (~last.fNullRead /\ last.outcome = "ok")

\* C9: on the retarget path neither assertion on the first block of the
\* window fires.
C9_WindowStartExists ==
    (/\ Called
     /\ \/ last.nHeight % EffectiveInterval(last.nHeight) = 0
        \/ IsForkBoundary(last.nHeight))
        => last.outcome # "assert"

\* C10: on the retarget path the 256-bit product of the (guarded) previous
\* target and the clamped timespan never wraps.
C10_ProductNeverWraps ==
    (/\ Returned
     /\ last.path = "retarget"
     /\ BigLE(Decoded(last.lastBits), params.powLimit))
        => ~last.fMulWraps

\* C10 under the main limit of 236 bits: no product wraps
C10_NoWrapUnderMainLimit ==
    (Returned /\ last.path = "retarget" /\ params.powLimit = PowLimitMain)
        => ~last.fMulWraps

====
